---- MODULE Spec2Model ----
(***************************************************************************)
(* Path containment of the engl MCP file server.                           *)
(*                                                                         *)
(* pkg/pathutil (ValidatePath, validateNonExistentPath, isWithinRoot,      *)
(* IsPathArg), the filescanner handlers (list, read, write, delete) and    *)
(* the shell exec handler, over a filesystem with directories, regular     *)
(* files and symbolic links.                                               *)
(*                                                                         *)
(* A Go string is a sequence of one-character strings, so that the         *)
(* path/filepath and strings functions the code calls are computed on      *)
(* characters, as the library computes them. A local variable of the code  *)
(* is a parameter of the operator that models the statements after its     *)
(* assignment.                                                             *)
(***************************************************************************)
EXTENDS Integers, Sequences, FiniteSets, TLC

(***************************************************************************)
(* strings, path/filepath (Unix)                                           *)
(***************************************************************************)
Slash == <<"/">>
Dot == <<".">>
DotDot == <<".", ".">>

\* strings.HasPrefix
HasPrefix(s, p) == Len(s) >= Len(p) /\ SubSeq(s, 1, Len(p)) = p

\* strings.ContainsAny
ContainsAny(s, chars) == \E i \in 1..Len(s) : s[i] \in chars

\* filepath.IsAbs
IsAbs(s) == HasPrefix(s, Slash)

\* index of the first / last separator of s, 0 when there is none
FirstSep(s) ==
    IF \E i \in 1..Len(s) : s[i] = "/"
    THEN CHOOSE i \in 1..Len(s) : s[i] = "/" /\ \A j \in 1..(i - 1) : s[j] # "/"
    ELSE 0

LastSep(s) ==
    IF \E i \in 1..Len(s) : s[i] = "/"
    THEN CHOOSE i \in 1..Len(s) : s[i] = "/" /\ \A j \in (i + 1)..Len(s) : s[j] # "/"
    ELSE 0

\* the non-empty elements of s between separators; i is the first separator
RECURSIVE Split(_)
SplitAt(s, i) ==
    IF i = 0 THEN <<s>>
    ELSE IF i = 1 THEN Split(Tail(s))
    ELSE <<SubSeq(s, 1, i - 1)>> \o Split(SubSeq(s, i + 1, Len(s)))

Split(s) == IF s = <<>> THEN <<>> ELSE SplitAt(s, FirstSep(s))

\* elements joined by the separator
RECURSIVE JoinComps(_)
JoinComps(cs) ==
    IF cs = <<>> THEN <<>>
    ELSE IF Len(cs) = 1 THEN cs[1]
    ELSE cs[1] \o Slash \o JoinComps(Tail(cs))

\* filepath.Clean, element by element: "." dropped, ".." cancels the element
\* before it, ".." at the start of a rooted path dropped, kept otherwise
RECURSIVE CleanComps(_, _, _)
CleanComps(rooted, cs, out) ==
    IF cs = <<>> THEN out
    ELSE IF Head(cs) = Dot THEN CleanComps(rooted, Tail(cs), out)
    ELSE IF Head(cs) = DotDot
         THEN IF out # <<>> /\ out[Len(out)] # DotDot
              THEN CleanComps(rooted, Tail(cs), SubSeq(out, 1, Len(out) - 1))
              ELSE IF rooted
                   THEN CleanComps(rooted, Tail(cs), out)
                   ELSE CleanComps(rooted, Tail(cs), Append(out, Head(cs)))
    ELSE CleanComps(rooted, Tail(cs), Append(out, Head(cs)))

CleanJoin(rooted, out) ==
    IF rooted THEN Slash \o JoinComps(out)
    ELSE IF out = <<>> THEN Dot ELSE JoinComps(out)

Clean(s) ==
    IF s = <<>> THEN Dot
    ELSE CleanJoin(IsAbs(s), CleanComps(IsAbs(s), Split(s), <<>>))

\* filepath.Join of two elements: empty elements are ignored, the result is Cleaned
Join(a, b) ==
    IF a = <<>> /\ b = <<>> THEN <<>>
    ELSE IF a = <<>> THEN Clean(b)
    ELSE IF b = <<>> THEN Clean(a)
    ELSE Clean(a \o Slash \o b)

\* filepath.Dir: all but the last element, Cleaned
Dir(s) == Clean(SubSeq(s, 1, LastSep(s)))

\* filepath.Base: the last element ("/" for a path of separators, "." for "")
LastElem(cs) == IF cs = <<>> THEN Slash ELSE cs[Len(cs)]

Base(s) == IF s = <<>> THEN Dot ELSE LastElem(Split(s))

\* length of the longest common prefix of two element lists
RECURSIVE CommonLen(_, _)
CommonLen(a, b) ==
    IF a = <<>> \/ b = <<>> \/ Head(a) # Head(b) THEN 0
    ELSE 1 + CommonLen(Tail(a), Tail(b))

\* filepath.Rel(basepath, targpath): [err, s]. bc and tc are the elements of
\* the Cleaned paths, k the number of leading elements they share.
RelError == [err |-> TRUE, s |-> <<>>]

RelCommon(bc, tc, k) ==
    IF k < Len(bc) /\ bc[k + 1] = DotDot THEN RelError
    ELSE [err |-> FALSE,
          s |-> JoinComps([i \in 1..(Len(bc) - k) |-> DotDot] \o SubSeq(tc, k + 1, Len(tc)))]

RelElems(bc, tc) == RelCommon(bc, tc, CommonLen(bc, tc))

RelFrom(base, targ) ==
    IF IsAbs(base) # IsAbs(targ) THEN RelError
    ELSE RelElems(Split(base), Split(targ))

RelCleaned(base, targ) ==
    IF targ = base THEN [err |-> FALSE, s |-> Dot]
    ELSE RelFrom(IF base = Dot THEN <<>> ELSE base, targ)

Rel(basepath, targpath) == RelCleaned(Clean(basepath), Clean(targpath))

(***************************************************************************)
(* the filesystem: a function from the real path of every entry to its     *)
(* node; kinds "dir", "file" (data: content) and "link" (data: target)     *)
(***************************************************************************)
MaxLinks == 4

NoNode == [kind |-> "none", data |-> <<>>]
DirNode == [kind |-> "dir", data |-> <<>>]
FileNode(content) == [kind |-> "file", data |-> content]
LinkNode(target) == [kind |-> "link", data |-> target]

Lookup(fs, p) == IF p \in DOMAIN fs THEN fs[p] ELSE NoNode

\* the entry called name in directory dir
Child(dir, name) == IF dir = Slash THEN Slash \o name ELSE dir \o Slash \o name

\* p is an entry below directory dir
Below(dir, p) == p # dir /\ HasPrefix(p, Child(dir, <<>>))

\* Path resolution, one element at a time from the resolved directory dest:
\* a symbolic link is replaced by its target (from "/" when the target is
\* absolute) unless it is the last element and follow is FALSE; fuel is the
\* number of links that may still be followed. [err, path, last]: for
\* ENOENT, path is the missing entry and last tells that it was the final
\* element (its parent exists).
RECURSIVE Walk(_, _, _, _, _)
WalkNode(fs, dest, rest, follow, fuel, key, node) ==
    IF node.kind = "none"
    THEN [err |-> "ENOENT", path |-> key, last |-> Len(rest) = 1]
    ELSE IF node.kind = "link" /\ (follow \/ Len(rest) > 1)
         THEN IF fuel = 0
              THEN [err |-> "ELOOP", path |-> key, last |-> Len(rest) = 1]
              ELSE Walk(fs, IF IsAbs(node.data) THEN Slash ELSE dest,
                        Split(node.data) \o Tail(rest), follow, fuel - 1)
    ELSE IF node.kind = "dir" \/ Len(rest) = 1
         THEN Walk(fs, key, Tail(rest), follow, fuel)
    ELSE [err |-> "ENOTDIR", path |-> key, last |-> FALSE]

Walk(fs, dest, rest, follow, fuel) ==
    IF rest = <<>> THEN [err |-> "nil", path |-> dest, last |-> TRUE]
    ELSE IF Head(rest) = Dot THEN Walk(fs, dest, Tail(rest), follow, fuel)
    ELSE IF Head(rest) = DotDot THEN Walk(fs, Dir(dest), Tail(rest), follow, fuel)
    ELSE WalkNode(fs, dest, rest, follow, fuel, Child(dest, Head(rest)),
                  Lookup(fs, Child(dest, Head(rest))))

\* os.Stat, os.Lstat and filepath.EvalSymlinks of an absolute path
Stat(fs, p) == Walk(fs, Slash, Split(p), TRUE, MaxLinks)
Lstat(fs, p) == Walk(fs, Slash, Split(p), FALSE, MaxLinks)
EvalSymlinks(fs, p) == Walk(fs, Slash, Split(p), TRUE, MaxLinks)

\* os.IsNotExist
IsNotExist(err) == err = "ENOENT"

\* fs with entry p set to node / with the entries of set ps removed
WithEntry(fs, p, node) ==
    [q \in DOMAIN fs \cup {p} |-> IF q = p THEN node ELSE fs[q]]

Without(fs, ps) == [q \in DOMAIN fs \ ps |-> fs[q]]

Done(fs) == [err |-> "nil", fs |-> fs]
Errno(e, fs) == [err |-> e, fs |-> fs]

\* os.Mkdir: the parent is resolved through its links and must be a
\* directory; the name itself must not exist (a link there is not followed).
\* w is what Lstat finds at the path.
MkdirAt(fs, w) ==
    IF w.err = "nil" THEN Errno("EEXIST", fs)
    ELSE IF w.err = "ENOENT" /\ w.last THEN Done(WithEntry(fs, w.path, DirNode))
    ELSE Errno(w.err, fs)

Mkdir(fs, p) == MkdirAt(fs, Lstat(fs, p))

\* os.MkdirAll: nothing to do for a directory, ENOTDIR for another entry,
\* otherwise the parent first and then Mkdir; a failed Mkdir is forgiven
\* when the path is a directory after all
RECURSIVE MkdirAll(_, _)
MkdirAllMade(fs, mk, ls) ==
    IF mk.err # "nil" /\ ls.err = "nil" /\ Lookup(fs, ls.path).kind = "dir"
    THEN Done(fs)
    ELSE mk

MkdirAllUp(p, up) ==
    IF up.err # "nil" THEN up
    ELSE MkdirAllMade(up.fs, Mkdir(up.fs, p), Lstat(up.fs, p))

MkdirAllStat(fs, p, st) ==
    IF st.err = "nil"
    THEN IF fs[st.path].kind = "dir" THEN Done(fs) ELSE Errno("ENOTDIR", fs)
    ELSE MkdirAllUp(p, IF Dir(p) # p THEN MkdirAll(fs, Dir(p)) ELSE Done(fs))

MkdirAll(fs, p) == MkdirAllStat(fs, p, Stat(fs, p))

\* os.WriteFile: open(O_WRONLY|O_CREATE|O_TRUNC) follows the links of every
\* element, the last one too, and creates the file a dangling link names.
\* w is what Stat finds at the path.
WriteAt(fs, content, w) ==
    IF w.err = "nil"
    THEN IF fs[w.path].kind = "dir"
         THEN Errno("EISDIR", fs)
         ELSE Done(WithEntry(fs, w.path, FileNode(content)))
    ELSE IF w.err = "ENOENT" /\ w.last
         THEN Done(WithEntry(fs, w.path, FileNode(content)))
    ELSE Errno(w.err, fs)

WriteFile(fs, p, content) == WriteAt(fs, content, Stat(fs, p))

\* os.ReadFile: [err, content, src], src the entry the content comes from
ReadAt(fs, w) ==
    IF w.err # "nil" THEN [err |-> w.err, content |-> <<>>, src |-> <<>>]
    ELSE IF fs[w.path].kind = "dir"
         THEN [err |-> "EISDIR", content |-> <<>>, src |-> <<>>]
    ELSE [err |-> "nil", content |-> fs[w.path].data, src |-> w.path]

ReadFile(fs, p) == ReadAt(fs, Stat(fs, p))

\* os.RemoveAll: nothing to do for a missing path; the entry (a link is not
\* followed) and everything below it are removed. "/" itself cannot be
\* removed: its content goes and the call fails.
RemoveAt(fs, w) ==
    IF w.err = "ENOENT" THEN Done(fs)
    ELSE IF w.err # "nil" THEN Errno(w.err, fs)
    ELSE IF w.path = Slash
         THEN Errno("EBUSY", Without(fs, {q \in DOMAIN fs : Below(Slash, q)}))
    ELSE Done(Without(fs, {q \in DOMAIN fs : q = w.path \/ Below(w.path, q)}))

RemoveAll(fs, p) == RemoveAt(fs, Lstat(fs, p))

(***************************************************************************)
(* pkg/pathutil                                                            *)
(***************************************************************************)
\* What ValidatePath returns: the error ("nil" for none) and the path, and
\* for the record the number of isWithinRoot calls it made.
ErrPathOutsideRoot == "path is outside allowed directory"
ErrInvalidPath == "invalid path"

Resolved(p, n) == [err |-> "nil", path |-> p, checks |-> n]
Failed(e, n) == [err |-> e, path |-> <<>>, checks |-> n]

\* isWithinRoot after filepath.Rel(allowedRoot, path)
relWithinRoot(rel) ==
    IF rel.err THEN FALSE
    ELSE IF HasPrefix(rel.s, DotDot) THEN FALSE
    ELSE TRUE

\* isWithinRoot as a comparison of strings: path starts with the root's text
isWithinRoot_StringPrefix(root, path) == HasPrefix(path, root)

isWithinRoot(root, path) == relWithinRoot(Rel(root, path))

\* validateNonExistentPath from "if !isWithinRoot(finalPath)" on
checkFinalPath(r2, finalPath) ==
    IF ~isWithinRoot(r2, finalPath) THEN Failed(ErrPathOutsideRoot, 2)
    ELSE Resolved(finalPath, 2)

\* foundExisting without the resolution of the ancestor's links: the
\* ancestor is checked and joined as it is written
foundExisting_NoResolve(r1, r2, absPath, dir, realDir) ==
    IF ~isWithinRoot(r1, dir) THEN Failed(ErrPathOutsideRoot, 1)
    ELSE checkFinalPath(r2, Join(dir, Rel(dir, absPath).s))

\* validateNonExistentPath once Lstat(dir) succeeded; realDir is what
\* EvalSymlinks(dir) returns
foundExisting(r1, r2, absPath, dir, realDir) ==
    IF realDir.err # "nil" THEN Failed(realDir.err, 0)
    ELSE IF ~isWithinRoot(r1, realDir.path) THEN Failed(ErrPathOutsideRoot, 1)
    ELSE checkFinalPath(r2, Join(realDir.path, Rel(dir, absPath).s))

\* The loop of validateNonExistentPath, entered with dir. allowedRoot is a
\* package variable read by each isWithinRoot call: r1 and r2 are the values
\* its two calls read. info is what Lstat finds at the parent.
RECURSIVE walkUp(_, _, _, _, _)
walkUpAt(fs, r1, r2, absPath, parent, info) ==
    IF info.err = "nil"
    THEN foundExisting(r1, r2, absPath, parent, EvalSymlinks(fs, parent))
    ELSE IF ~IsNotExist(info.err) THEN Failed(info.err, 0)
    ELSE walkUp(fs, r1, r2, absPath, parent)

walkUp(fs, r1, r2, absPath, dir) ==
    IF Dir(dir) = dir THEN Failed(ErrInvalidPath, 0)
    ELSE walkUpAt(fs, r1, r2, absPath, Dir(dir), Lstat(fs, Dir(dir)))

validateNonExistentPath(fs, r1, r2, absPath) == walkUp(fs, r1, r2, absPath, absPath)

\* the absolute path ValidatePath resolves; r0 is allowedRoot as read here
AbsPath(r0, path) ==
    IF IsAbs(path) THEN Clean(path) ELSE Clean(Join(r0, path))

\* validateResolved with the containment check made on the path as
\* written, before its links are resolved
validateResolved_Lexical(fs, r1, r2, absPath, realPath) ==
    IF realPath.err # "nil"
    THEN IF IsNotExist(realPath.err)
         THEN validateNonExistentPath(fs, r1, r2, absPath)
         ELSE Failed(realPath.err, 0)
    ELSE IF ~isWithinRoot(r1, absPath) THEN Failed(ErrPathOutsideRoot, 1)
    ELSE Resolved(realPath.path, 1)

\* ValidatePath from "realPath, err := filepath.EvalSymlinks(absPath)" on
validateResolved(fs, r1, r2, absPath, realPath) ==
    IF realPath.err # "nil"
    THEN IF IsNotExist(realPath.err)
         THEN validateNonExistentPath(fs, r1, r2, absPath)
         ELSE Failed(realPath.err, 0)
    ELSE IF ~isWithinRoot(r1, realPath.path) THEN Failed(ErrPathOutsideRoot, 1)
    ELSE Resolved(realPath.path, 1)

validateAbs(fs, r1, r2, absPath) ==
    validateResolved(fs, r1, r2, absPath, EvalSymlinks(fs, absPath))

\* ValidatePath with the values r0, r1, r2 its reads of allowedRoot return:
\* r0 to anchor a relative path, r1 in the first isWithinRoot call, r2 in the
\* second one (ancestor walk only)
ValidateReads(fs, r0, r1, r2, path) ==
    IF path = <<>> THEN Failed(ErrInvalidPath, 0)
    ELSE validateAbs(fs, r1, r2, AbsPath(r0, path))

\* ValidatePath when allowedRoot does not change during the call
ValidatePath(fs, root, path) == ValidateReads(fs, root, root, root, path)

\* os.Stat of a bare name or of "." as the process sees it from its working
\* directory cwd; a working directory that was removed still resolves as "."
\* and holds no entry
StatAt(fs, cwd, p) ==
    IF IsAbs(p) THEN Stat(fs, p)
    ELSE IF p = <<>> THEN [err |-> "ENOENT", path |-> <<>>, last |-> TRUE]
    ELSE IF Lookup(fs, cwd).kind = "dir" THEN Walk(fs, cwd, Split(p), TRUE, MaxLinks)
    ELSE IF Clean(p) = Dot THEN [err |-> "nil", path |-> cwd, last |-> TRUE]
    ELSE [err |-> "ENOENT", path |-> cwd, last |-> FALSE]

\* IsPathArg without the probe of the parent directory
IsPathArg_NoParentProbe(fs, cwd, arg) ==
    IF HasPrefix(arg, <<"-">>) THEN FALSE
    ELSE IF ContainsAny(arg, {"/", "\\"}) \/ HasPrefix(arg, Dot) \/ IsAbs(arg) THEN TRUE
    ELSE IF StatAt(fs, cwd, arg).err = "nil" THEN TRUE
    ELSE FALSE

IsPathArg(fs, cwd, arg) ==
    IF HasPrefix(arg, <<"-">>) THEN FALSE
    ELSE IF ContainsAny(arg, {"/", "\\"}) \/ HasPrefix(arg, Dot) \/ IsAbs(arg) THEN TRUE
    ELSE IF StatAt(fs, cwd, arg).err = "nil" THEN TRUE
    ELSE IF StatAt(fs, cwd, Dir(arg)).err = "nil" THEN TRUE
    ELSE FALSE

(***************************************************************************)
(* pkg/filescanner: the handlers. A request is [op, method, json, path,    *)
(* content, command, args]; a handler gives [resp, fs, proc].              *)
(***************************************************************************)
MaxTreeDepth == 6

NoProc == [launched |-> FALSE, command |-> "", args |-> <<>>, dir |-> <<>>]

Response(status, error) ==
    [status |-> status, error |-> error, content |-> <<>>, success |-> FALSE,
     tree |-> {}, src |-> <<>>]

Reply(resp, fs) == [resp |-> resp, fs |-> fs, proc |-> NoProc]

\* writeError, writeReadError, writeWriteError, writeDeleteError
writeError(fs, msg) == Reply(Response(400, msg), fs)

\* http.Error(w, "Method not allowed", http.StatusMethodNotAllowed)
MethodNotAllowed(fs) == Reply(Response(405, <<"Method not allowed">>), fs)

\* buildTree: the entries of the tree, each [path, isDir]; a child that
\* cannot be built is left out. depth bounds the nesting, as the length of a
\* path name does. info is what Stat finds at root.
RECURSIVE buildTree(_, _, _)
buildEntry(fs, root, depth, info) ==
    IF info.err # "nil" THEN [err |-> info.err, entries |-> {}]
    ELSE IF fs[info.path].kind # "dir"
         THEN [err |-> "nil", entries |-> {[path |-> root, isDir |-> FALSE]}]
    ELSE [err |-> "nil",
          entries |-> {[path |-> root, isDir |-> TRUE]} \cup
              UNION {buildTree(fs, Join(root, Base(q)), depth - 1).entries :
                        q \in {q \in DOMAIN fs : q # info.path /\ Dir(q) = info.path}}]

buildTree(fs, root, depth) ==
    buildEntry(fs, root, depth,
               IF depth = 0 THEN [err |-> "ENAMETOOLONG", path |-> <<>>, last |-> TRUE]
               ELSE Stat(fs, root))

\* ListHandler from "tree, err := buildTree(validPath)" on
listBuilt(fs, tree) ==
    IF tree.err # "nil" THEN writeError(fs, <<tree.err>>)
    ELSE Reply([Response(200, <<>>) EXCEPT !.tree = tree.entries], fs)

\* ListHandler from "validPath, err := pathutil.ValidatePath(req.Path)" on
listValidated(fs, v) ==
    IF v.err # "nil" THEN writeError(fs, <<"access denied: ", v.err>>)
    ELSE listBuilt(fs, buildTree(fs, v.path, MaxTreeDepth))

ListHandler(fs, root, r) ==
    IF r.method # "POST" THEN MethodNotAllowed(fs)
    ELSE IF ~r.json THEN writeError(fs, <<"Invalid JSON body">>)
    ELSE IF r.path = <<>> THEN writeError(fs, <<"path is required">>)
    ELSE listValidated(fs, ValidatePath(fs, root, r.path))

\* ReadHandler from "content, err := os.ReadFile(validPath)" on
readDone(fs, rd) ==
    IF rd.err # "nil" THEN writeError(fs, <<rd.err>>)
    ELSE Reply([Response(200, <<>>) EXCEPT !.content = rd.content, !.src = rd.src], fs)

\* ReadHandler from "info, err := os.Stat(validPath)" on
readStat(fs, validPath, info) ==
    IF info.err # "nil" THEN writeError(fs, <<info.err>>)
    ELSE IF fs[info.path].kind = "dir"
         THEN writeError(fs, <<"path is a directory, not a file">>)
    ELSE readDone(fs, ReadFile(fs, validPath))

\* ReadHandler from "validPath, err := pathutil.ValidatePath(req.Path)" on
readValidated(fs, v) ==
    IF v.err # "nil" THEN writeError(fs, <<"access denied: ", v.err>>)
    ELSE readStat(fs, v.path, Stat(fs, v.path))

\* ReadHandler reading the path of the request without asking the resolver
ReadHandler_Unchecked(fs, root, r) ==
    IF r.method # "POST" THEN MethodNotAllowed(fs)
    ELSE IF ~r.json THEN writeError(fs, <<"Invalid JSON body">>)
    ELSE IF r.path = <<>> THEN writeError(fs, <<"path is required">>)
    ELSE readValidated(fs, Resolved(AbsPath(root, r.path), 0))

ReadHandler(fs, root, r) ==
    IF r.method # "POST" THEN MethodNotAllowed(fs)
    ELSE IF ~r.json THEN writeError(fs, <<"Invalid JSON body">>)
    ELSE IF r.path = <<>> THEN writeError(fs, <<"path is required">>)
    ELSE readValidated(fs, ValidatePath(fs, root, r.path))

\* WriteHandler from "os.WriteFile(validPath, ...)" on
writeDone(wr) ==
    IF wr.err # "nil" THEN writeError(wr.fs, <<wr.err>>)
    ELSE Reply([Response(200, <<>>) EXCEPT !.success = TRUE], wr.fs)

\* WriteHandler from "os.MkdirAll(dir, 0755)" on
writeMade(r, validPath, mk) ==
    IF mk.err # "nil" THEN writeError(mk.fs, <<mk.err>>)
    ELSE writeDone(WriteFile(mk.fs, validPath, r.content))

\* WriteHandler from "validPath, err := pathutil.ValidatePath(req.Path)" on
writeValidated(fs, r, v) ==
    IF v.err # "nil" THEN writeError(fs, <<"access denied: ", v.err>>)
    ELSE writeMade(r, v.path, MkdirAll(fs, Dir(v.path)))

WriteHandler(fs, root, r) ==
    IF r.method # "POST" THEN MethodNotAllowed(fs)
    ELSE IF ~r.json THEN writeError(fs, <<"Invalid JSON body">>)
    ELSE IF r.path = <<>> THEN writeError(fs, <<"path is required">>)
    ELSE writeValidated(fs, r, ValidatePath(fs, root, r.path))

\* DeleteHandler from "os.RemoveAll(validPath)" on
deleteDone(rm) ==
    IF rm.err # "nil" THEN writeError(rm.fs, <<rm.err>>)
    ELSE Reply([Response(200, <<>>) EXCEPT !.success = TRUE], rm.fs)

\* DeleteHandler from "os.Stat(validPath)" on
\* DeleteHandler without the os.Stat probe before os.RemoveAll
deleteStat_NoStat(fs, validPath, info) ==
    deleteDone(RemoveAll(fs, validPath))

deleteStat(fs, validPath, info) ==
    IF info.err # "nil" THEN writeError(fs, <<info.err>>)
    ELSE deleteDone(RemoveAll(fs, validPath))

\* DeleteHandler from "validPath, err := pathutil.ValidatePath(req.Path)" on
deleteValidated(fs, v) ==
    IF v.err # "nil" THEN writeError(fs, <<"access denied: ", v.err>>)
    ELSE deleteStat(fs, v.path, Stat(fs, v.path))

DeleteHandler(fs, root, r) ==
    IF r.method # "POST" THEN MethodNotAllowed(fs)
    ELSE IF ~r.json THEN writeError(fs, <<"Invalid JSON body">>)
    ELSE IF r.path = <<>> THEN writeError(fs, <<"path is required">>)
    ELSE deleteValidated(fs, ValidatePath(fs, root, r.path))

(***************************************************************************)
(* pkg/shell                                                               *)
(***************************************************************************)
AllowedCommands == {"tree", "cat", "ls", "pwd"}

commandAllowed(name) == name \in AllowedCommands

\* The loop over req.Args: [err, arg, args], err with the first argument the
\* resolver refuses. validateArg is the body of the loop for a path
\* argument, v what ValidatePath returns for it.
RECURSIVE validateArgs(_, _, _, _, _)

\* validateArg handing an argument the resolver refuses to the process as it
\* was sent
validateArg_PassThrough(fs, root, cwd, args, done, v) ==
    IF v.err # "nil"
    THEN validateArgs(fs, root, cwd, Tail(args), Append(done, Head(args)))
    ELSE validateArgs(fs, root, cwd, Tail(args), Append(done, v.path))

validateArg(fs, root, cwd, args, done, v) ==
    IF v.err # "nil" THEN [err |-> v.err, arg |-> Head(args), args |-> done]
    ELSE validateArgs(fs, root, cwd, Tail(args), Append(done, v.path))

validateArgs(fs, root, cwd, args, done) ==
    IF args = <<>> THEN [err |-> "nil", arg |-> <<>>, args |-> done]
    ELSE IF IsPathArg(fs, cwd, Head(args))
         THEN validateArg(fs, root, cwd, args, done, ValidatePath(fs, root, Head(args)))
    ELSE validateArgs(fs, root, cwd, Tail(args), Append(done, Head(args)))

\* ExecHandler from "cmd := exec.Command(req.Command, validatedArgs...)" on;
\* exitOk tells whether the launched process ends without error
execValidated(fs, root, r, exitOk, va) ==
    IF va.err # "nil"
    THEN writeError(fs, <<"access denied for argument", va.arg, va.err>>)
    ELSE [resp |-> Response(200, IF exitOk THEN <<>> ELSE <<"exit status">>),
          fs |-> fs,
          proc |-> [launched |-> TRUE, command |-> r.command, args |-> va.args,
                    dir |-> root]]

ExecHandler(fs, root, cwd, r, exitOk) ==
    IF r.method # "POST" THEN MethodNotAllowed(fs)
    ELSE IF ~r.json THEN writeError(fs, <<"Invalid JSON body">>)
    ELSE IF r.command = "" THEN writeError(fs, <<"command is required">>)
    ELSE IF ~commandAllowed(r.command)
         THEN writeError(fs, <<"command not allowed: ", r.command>>)
    ELSE execValidated(fs, root, r, exitOk, validateArgs(fs, root, cwd, r.args, <<>>))

(***************************************************************************)
(* the world the server runs in, and the requests it is sent               *)
(***************************************************************************)
MaxSteps == 2
MaxArgs == 2

\* the working directory of the process: init() makes it the allowed root
Root == <<"/", "r">>
Outside == <<"/", "o">>
Sibling == <<"/", "r", "x">>

\* Below the root: a file, a directory with a file, an entry whose name
\* starts with two dots, and links to a directory, to a file and to a
\* missing entry outside the root, to a directory and to a missing entry
\* inside it, to a directory whose name extends the root's, and to itself.
\* Outside: a file, and a link that leads back below the root.
InitFs ==
    Slash :> DirNode
    @@ Root :> DirNode
    @@ Child(Root, <<"a">>) :> FileNode(<<"A">>)
    @@ Child(Root, <<"d">>) :> DirNode
    @@ Child(Child(Root, <<"d">>), <<"f">>) :> FileNode(<<"F">>)
    @@ Child(Root, <<".", ".", "h">>) :> FileNode(<<"H">>)
    @@ Child(Root, <<"l">>) :> LinkNode(Outside)
    @@ Child(Root, <<"k">>) :> LinkNode(Child(Outside, <<"s">>))
    @@ Child(Root, <<"g">>) :> LinkNode(Child(Outside, <<"n">>))
    @@ Child(Root, <<"i">>) :> LinkNode(<<"d">>)
    @@ Child(Root, <<"e">>) :> LinkNode(Child(Root, <<"w">>))
    @@ Child(Root, <<"x">>) :> LinkNode(Sibling)
    @@ Child(Root, <<"z">>) :> LinkNode(Child(Root, <<"z">>))
    @@ Outside :> DirNode
    @@ Child(Outside, <<"s">>) :> FileNode(<<"S">>)
    @@ Child(Outside, <<"b">>) :> LinkNode(Child(Root, <<"d">>))
    @@ Sibling :> DirNode
    @@ Child(Sibling, <<"f">>) :> FileNode(<<"X">>)

\* candidate paths: relative and absolute, existing and not, through each
\* link, with "." and ".." elements, and the empty string
Candidates ==
    { <<>>,
      <<"a">>, <<"d">>, <<"d", "/", "f">>, <<"n">>, <<"d", "/", "n">>,
      <<"n", "/", "m", "/", "q">>, <<"a", "/", "q">>,
      <<"l">>, <<"l", "/", "s">>, <<"l", "/", "n">>, <<"l", "/", "s", "/", "q">>,
      <<"l", "/", "b", "/", "f">>,
      <<"k">>, <<"g">>, <<"g", "/", "q">>, <<"e">>,
      <<"i">>, <<"i", "/", "f">>, <<"i", "/", "n">>,
      <<"x">>, <<"x", "/", "f">>, <<"z">>,
      <<".">>, <<".", ".">>, <<"d", "/", ".", ".">>,
      <<".", ".", "/", "o", "/", "s">>, <<".", ".", "/", "r", "x", "/", "f">>,
      <<".", ".", "h">>, <<".", ".", "n">>, <<"d", "/", ".", ".", "n">>,
      <<"/">>, <<"/", "r">>, <<"/", "r", "/", "a">>, <<"/", "r", "/", "n">>,
      <<"/", "o", "/", "s">>, <<"/", "o", "/", "n">>, <<"/", "r", "x", "/", "f">>,
      <<"/", "q", "/", "w">>, <<"/", "r", "/", ".", ".", "/", "o", "/", "s">> }

Contents == {<<"h", "i">>, <<"y", "o">>}

\* argument tokens of an exec request: a flag, an existing and a missing bare
\* name, an absolute path, a dotted one, one with a backslash, the empty token
ArgTokens ==
    { <<"-", "L">>, <<"a">>, <<"n">>, <<"/", "o", "/", "s">>, <<".", "/", "a">>,
      <<"a", "\\", "b">>, <<>> }

ArgLists == UNION {[1..n -> ArgTokens] : n \in 0..MaxArgs}

Request(op, method, json, path, content, command, args) ==
    [op |-> op, method |-> method, json |-> json, path |-> path,
     content |-> content, command |-> command, args |-> args]

\* the requests of a filesystem handler: a wrong method, a body that is not
\* JSON, and a JSON body with each candidate path
FileRequests(op) ==
    { Request(op, "GET", TRUE, <<>>, <<>>, "", <<>>),
      Request(op, "POST", FALSE, <<>>, <<>>, "", <<>>) }
    \cup { Request(op, "POST", TRUE, c, <<>>, "", <<>>) : c \in Candidates }

WriteRequests ==
    { Request("write", "GET", TRUE, <<>>, <<>>, "", <<>>),
      Request("write", "POST", FALSE, <<>>, <<>>, "", <<>>) }
    \cup { Request("write", "POST", TRUE, c, s, "", <<>>) : c \in Candidates, s \in Contents }

ExecRequests ==
    { Request("exec", "GET", TRUE, <<>>, <<>>, "", <<>>),
      Request("exec", "POST", FALSE, <<>>, <<>>, "", <<>>) }
    \cup { Request("exec", "POST", TRUE, <<>>, <<>>, c, <<>>) : c \in {"", "rm", "pwd"} }
    \cup { Request("exec", "POST", TRUE, <<>>, <<>>, "cat", a) : a \in ArgLists }

NoRequest == Request("none", "", TRUE, <<>>, <<>>, "", <<>>)

(***************************************************************************)
(* the server                                                              *)
(***************************************************************************)
VARIABLES
    fs,           \* the filesystem
    allowedRoot,  \* pathutil.allowedRoot
    req,          \* the last request served
    resp,         \* its response
    proc,         \* the external process it launched, if any
    pre,          \* the filesystem when the request arrived
    steps,        \* requests served
    calls         \* the ValidatePath calls in flight, one per goroutine

vars == <<fs, allowedRoot, req, resp, proc, pre, steps, calls>>

Goroutines == {1, 2}

\* a value of allowedRoot the call has not read
Unread == <<"?">>

Idle == [pc |-> "idle", path |-> <<>>, r0 |-> Unread, r1 |-> Unread, r2 |-> Unread,
         result |-> Failed("", 0)]

\* init(): allowedRoot = os.Getwd()
Init ==
    /\ fs = InitFs
    /\ allowedRoot = Root
    /\ req = NoRequest
    /\ resp = Response(0, <<>>)
    /\ proc = NoProc
    /\ pre = InitFs
    /\ steps = 0
    /\ calls = [g \in Goroutines |-> Idle]

Serve(r, out) ==
    /\ steps < MaxSteps
    /\ steps' = steps + 1
    /\ req' = r
    /\ pre' = fs
    /\ fs' = out.fs
    /\ resp' = out.resp
    /\ proc' = out.proc
    /\ UNCHANGED <<allowedRoot, calls>>

List == \E r \in FileRequests("list") : Serve(r, ListHandler(fs, allowedRoot, r))

Read == \E r \in FileRequests("read") : Serve(r, ReadHandler(fs, allowedRoot, r))

Write == \E r \in WriteRequests : Serve(r, WriteHandler(fs, allowedRoot, r))

Delete == \E r \in FileRequests("delete") : Serve(r, DeleteHandler(fs, allowedRoot, r))

Exec ==
    \E r \in ExecRequests, exitOk \in BOOLEAN :
        Serve(r, ExecHandler(fs, allowedRoot, Root, r, exitOk))

Next == List \/ Read \/ Write \/ Delete \/ Exec

Spec == Init /\ [][Next]_vars

(***************************************************************************)
(* Reconfiguration while calls are in flight. SetAllowedRoot is a plain    *)
(* assignment to the package variable and ValidatePath reads the variable  *)
(* once to anchor a relative path and once in each isWithinRoot call, with *)
(* no lock: a call is a sequence of steps, one per read, and an assignment *)
(* may come between any two of them. (The reads race with the write; each  *)
(* read is taken to return a value that was assigned, the old or the new.) *)
(***************************************************************************)
\* the roots a caller of SetAllowedRoot passes: the working directory, a
\* directory below it, and the name of a symbolic link to that directory
RootChoices == {Root, Child(Root, <<"d">>), Child(Root, <<"i">>)}

RaceCandidates ==
    { <<"a">>, <<"n">>, <<".", ".", "/", "a">>, <<".", ".", "/", "n">>,
      <<"/", "r", "/", "d", "/", "n">> }

SetAllowedRoot(path) ==
    /\ allowedRoot' = path
    /\ UNCHANGED <<fs, req, resp, proc, pre, steps, calls>>

\* ValidatePath line 38-48: the read that anchors a relative path
Begin(g, path) ==
    /\ calls[g].pc = "idle"
    /\ calls' = [calls EXCEPT ![g] =
                    [Idle EXCEPT !.pc = "resolve", !.path = path,
                                 !.r0 = IF IsAbs(path) \/ path = <<>> THEN Unread
                                        ELSE allowedRoot]]
    /\ UNCHANGED <<fs, allowedRoot, req, resp, proc, pre, steps>>

\* the call c after its first isWithinRoot call read r1; out is what the
\* call returns if allowedRoot keeps that value
firstChecked(c, r1, out) ==
    IF out.checks = 0 THEN [c EXCEPT !.pc = "done", !.result = out]
    ELSE IF out.checks = 1 THEN [c EXCEPT !.pc = "done", !.r1 = r1, !.result = out]
    ELSE [c EXCEPT !.pc = "recheck", !.r1 = r1]

\* up to the first isWithinRoot call (line 61 or 88) and its read
FirstCheck(g) ==
    /\ calls[g].pc = "resolve"
    /\ calls' = [calls EXCEPT ![g] =
                    firstChecked(calls[g], allowedRoot,
                                 ValidateReads(fs, calls[g].r0, allowedRoot, allowedRoot,
                                               calls[g].path))]
    /\ UNCHANGED <<fs, allowedRoot, req, resp, proc, pre, steps>>

\* the second isWithinRoot call of the ancestor walk (line 96) and its read
SecondCheck(g) ==
    /\ calls[g].pc = "recheck"
    /\ calls' = [calls EXCEPT ![g] =
                    [calls[g] EXCEPT !.pc = "done", !.r2 = allowedRoot,
                         !.result = ValidateReads(fs, calls[g].r0, calls[g].r1,
                                                  allowedRoot, calls[g].path)]]
    /\ UNCHANGED <<fs, allowedRoot, req, resp, proc, pre, steps>>

\* the call returns
Return(g) ==
    /\ calls[g].pc = "done"
    /\ calls' = [calls EXCEPT ![g] = Idle]
    /\ UNCHANGED <<fs, allowedRoot, req, resp, proc, pre, steps>>

Reconfigure == \E p \in RootChoices : SetAllowedRoot(p)

Call == \E g \in Goroutines, c \in RaceCandidates : Begin(g, c)

Step == \E g \in Goroutines : FirstCheck(g) \/ SecondCheck(g) \/ Return(g)

NextRace == Reconfigure \/ Call \/ Step

SpecRace == Init /\ [][NextRace]_vars

(***************************************************************************)
(* Properties                                                              *)
(***************************************************************************)
FileOps == {"list", "read", "write", "delete"}

\* the last request served reached the resolver of a filesystem handler
ServedFile(ops) == req.op \in ops /\ req.method = "POST" /\ req.json

\* the last request served was an exec of a whitelisted command
ServedExec ==
    req.op = "exec" /\ req.method = "POST" /\ req.json /\ commandAllowed(req.command)

\* p is root or a descendant of it, element by element (both absolute, Clean)
Inside(root, p) ==
    /\ Len(Split(p)) >= Len(Split(root))
    /\ SubSeq(Split(p), 1, Len(Split(root))) = Split(root)

\* the absolute path of a list of elements
PathOf(cs) == Slash \o JoinComps(cs)

\* the entries (real locations) the last request created, changed or removed
Changed == {k \in DOMAIN pre \cup DOMAIN fs : Lookup(pre, k) # Lookup(fs, k)}

\* what the resolver answers to the last request
Answer == ValidatePath(pre, allowedRoot, req.path)

Denied(err) == resp.status = 400 /\ resp.error = <<"access denied: ", err>>

\* C1: a read, write or delete request only touches real locations that are
\* the allowed root or below it: nothing is created, changed or removed
\* outside the root and no content comes from outside it.
C1_TouchesOnlyRoot ==
    ServedFile({"read", "write", "delete"}) =>
        /\ \A k \in Changed : Inside(allowedRoot, k)
        /\ resp.src # <<>> => Inside(allowedRoot, resp.src)

\* C2: whenever ValidatePath returns a path without error, the path is the
\* allowed root or a descendant of it element by element, on the
\* existing-path branch and on the ancestor-walk branch.
C2_ResolvedInsideRoot ==
    \A c \in Candidates :
        ValidatePath(fs, allowedRoot, c).err = "nil" =>
            Inside(allowedRoot, ValidatePath(fs, allowedRoot, c).path)

\* a write was served whose path resolved on the ancestor-walk branch to a
\* proper descendant of the root, in a filesystem where another candidate
\* resolves on the existing-path branch to a proper descendant
C2_Witness ==
    /\ ServedFile({"write"}) /\ resp.status = 200
    /\ Answer.err = "nil" /\ Answer.checks = 2 /\ Answer.path # allowedRoot
    /\ \E c \in Candidates :
          /\ ValidatePath(pre, allowedRoot, c).err = "nil"
          /\ ValidatePath(pre, allowedRoot, c).checks = 1
          /\ ValidatePath(pre, allowedRoot, c).path # allowedRoot

\* the written prefixes of an absolute path, itself included
Prefixes(p) == {PathOf(SubSeq(Split(p), 1, k)) : k \in 1..Len(Split(p))}

\* q names a symbolic link whose target exists and lies outside root
LinkOut(f, root, q) ==
    /\ Lstat(f, q).err = "nil" /\ f[Lstat(f, q).path].kind = "link"
    /\ Stat(f, q).err = "nil" /\ ~Inside(root, Stat(f, q).path)

\* candidate c is lexically inside root and its last or an intermediate
\* element is a symbolic link whose existing target lies outside root
EscapingLink(f, root, c) ==
    /\ c # <<>>
    /\ Inside(root, AbsPath(root, c))
    /\ \E q \in Prefixes(AbsPath(root, c)) : LinkOut(f, root, q)

\* C3 as stated: a request for a candidate lexically inside the root with a
\* symbolic link, last or intermediate, whose existing target lies outside
\* the root is refused with ErrPathOutsideRoot.
C3_LinkOutsideRefused ==
    ServedFile(FileOps) /\ EscapingLink(pre, allowedRoot, req.path) =>
        Denied(ErrPathOutsideRoot)

\* C3 amended: for a candidate lexically inside the root with a symbolic
\* link, last or intermediate, whose existing target lies outside the root,
\* ValidatePath returns ErrPathOutsideRoot when the fully resolved location
\* of the candidate exists and lies outside the root, the resolution error
\* when resolution fails for another reason than a missing entry, and a path
\* only when that path is inside the root.
C3_LinkNeverEscapes ==
    \A c \in Candidates :
        EscapingLink(fs, allowedRoot, c) =>
            LET v == ValidatePath(fs, allowedRoot, c)
                real == EvalSymlinks(fs, AbsPath(allowedRoot, c))
            IN  /\ real.err = "nil" /\ ~Inside(allowedRoot, real.path)
                      => v.err = ErrPathOutsideRoot
                /\ real.err \notin {"nil", "ENOENT"} => v.err = real.err
                /\ v.err = "nil" => Inside(allowedRoot, v.path)

\* a request through a link whose target exists outside the root was
\* refused with ErrPathOutsideRoot
C3_Witness ==
    /\ ServedFile(FileOps) /\ EscapingLink(pre, allowedRoot, req.path)
    /\ EvalSymlinks(pre, AbsPath(allowedRoot, req.path)).err = "nil"
    /\ Denied(ErrPathOutsideRoot) /\ fs = pre

\* the proper ancestors of an absolute path, "/" included
ProperAncestors(p) == {PathOf(SubSeq(Split(p), 1, k)) : k \in 0..(Len(Split(p)) - 1)}

\* the nearest ancestor of p that exists as an entry (a link is an entry)
NearestExisting(f, p) ==
    CHOOSE q \in ProperAncestors(p) :
        /\ Lstat(f, q).err = "nil"
        /\ \A q2 \in ProperAncestors(p) : Lstat(f, q2).err = "nil" => Len(q2) <= Len(q)

\* candidate c names a missing target below some existing ancestor
Missing(f, root, c) ==
    /\ c # <<>>
    /\ AbsPath(root, c) # Slash
    /\ Stat(f, AbsPath(root, c)).err = "ENOENT"

\* where the nearest existing ancestor of c leads: its real location, or
\* the missing entry its link names
AncestorLeads(f, root, c) == Stat(f, NearestExisting(f, AbsPath(root, c)))

\* the part of c below its nearest existing ancestor
Suffix(f, root, c) ==
    SubSeq(Split(AbsPath(root, c)),
           Len(Split(NearestExisting(f, AbsPath(root, c)))) + 1,
           Len(Split(AbsPath(root, c))))

\* C4 as stated: a request for a missing target whose nearest existing
\* ancestor lies outside the root, directly or because it is a symbolic link
\* leading outside the root, is refused with ErrPathOutsideRoot.
C4_AncestorOutsideRefused ==
    /\ ServedFile(FileOps) /\ Missing(pre, allowedRoot, req.path)
    /\ AncestorLeads(pre, allowedRoot, req.path).err \in {"nil", "ENOENT"}
    /\ ~Inside(allowedRoot, AncestorLeads(pre, allowedRoot, req.path).path)
    => Denied(ErrPathOutsideRoot)

\* C4 amended: for a missing target, ValidatePath returns ErrPathOutsideRoot
\* when the nearest existing ancestor resolves to a real location outside
\* the root, and the resolution error, never a path, when that ancestor is a
\* link that does not resolve; a path it returns is the resolved ancestor
\* joined with the missing suffix, and containment of that reconstructed
\* path is checked too: the call fails with ErrPathOutsideRoot when the root
\* read by the second check does not contain it.
C4_AncestorWalk ==
    \A c \in Candidates :
        Missing(fs, allowedRoot, c) =>
            LET v == ValidatePath(fs, allowedRoot, c)
                anc == AncestorLeads(fs, allowedRoot, c)
            IN  /\ anc.err = "nil" /\ ~Inside(allowedRoot, anc.path)
                      => v.err = ErrPathOutsideRoot
                /\ anc.err # "nil" => v.err = anc.err
                /\ v.err = "nil" =>
                      /\ anc.err = "nil"
                      /\ v.path = PathOf(Split(anc.path) \o Suffix(fs, allowedRoot, c))
                      /\ Inside(allowedRoot, v.path)
                      /\ v.checks = 2
                      /\ ValidateReads(fs, allowedRoot, allowedRoot, Outside, c).err
                            = ErrPathOutsideRoot

\* a request for a missing target below an ancestor outside the root was
\* refused with ErrPathOutsideRoot
C4_Witness ==
    /\ ServedFile(FileOps) /\ Missing(pre, allowedRoot, req.path)
    /\ AncestorLeads(pre, allowedRoot, req.path).err = "nil"
    /\ ~Inside(allowedRoot, AncestorLeads(pre, allowedRoot, req.path).path)
    /\ Denied(ErrPathOutsideRoot) /\ fs = pre

\* C5: the containment check accepts exactly the root and its descendants:
\* a request whose path resolves to an existing location is refused with
\* ErrPathOutsideRoot if and only if that location is not the root or below
\* it, whatever the names of its elements.
C5_ContainmentExact ==
    /\ ServedFile(FileOps) /\ req.path # <<>>
    /\ EvalSymlinks(pre, AbsPath(allowedRoot, req.path)).err = "nil"
    => (Denied(ErrPathOutsideRoot)
          <=> ~Inside(allowedRoot, EvalSymlinks(pre, AbsPath(allowedRoot, req.path)).path))

\* c is a relative path of plain names: no empty, "." or ".." element
PlainRelative(c) ==
    /\ c # <<>> /\ ~IsAbs(c)
    /\ c = JoinComps(Split(c))
    /\ \A i \in 1..Len(Split(c)) : Split(c)[i] \notin {Dot, DotDot}

\* the path of the first k elements of c below root
Under(root, c, k) == PathOf(Split(root) \o SubSeq(Split(c), 1, k))

\* below the directory root, the target of c is missing and each of its
\* intermediate directories is a directory or missing
FreshUnder(f, root, c) ==
    /\ Lookup(f, root).kind = "dir"
    /\ Lookup(f, Under(root, c, Len(Split(c)))).kind = "none"
    /\ \A k \in 1..(Len(Split(c)) - 1) : Lookup(f, Under(root, c, k)).kind \in {"dir", "none"}
    /\ \A k \in 1..(Len(Split(c)) - 2) :
          Lookup(f, Under(root, c, k)).kind = "none"
              => Lookup(f, Under(root, c, k + 1)).kind = "none"

\* C6: a write request for a relative candidate of plain names whose target,
\* and any number of its intermediate directories, are missing below the
\* root resolves to the root joined with the candidate and succeeds: the
\* file holds the content and every missing parent is a directory.
C6_CreateOnWrite ==
    ServedFile({"write"}) /\ PlainRelative(req.path) /\ FreshUnder(pre, allowedRoot, req.path)
    => /\ Answer = Resolved(Under(allowedRoot, req.path, Len(Split(req.path))), 2)
       /\ resp.status = 200 /\ resp.success
       /\ Lookup(fs, Under(allowedRoot, req.path, Len(Split(req.path))))
             = FileNode(req.content)
       /\ \A k \in 1..(Len(Split(req.path)) - 1) :
             Lookup(fs, Under(allowedRoot, req.path, k)).kind = "dir"

\* C7: when the resolver answers a filesystem request with an error, the
\* handler answers 400 with a non-empty error and no content, tree or
\* success, launches nothing and leaves the filesystem as it was.
C7_FailureTouchesNothing ==
    ServedFile(FileOps) /\ Answer.err # "nil" =>
        /\ resp.status = 400 /\ resp.error # <<>>
        /\ resp.content = <<>> /\ resp.src = <<>> /\ resp.tree = {} /\ ~resp.success
        /\ ~proc.launched
        /\ fs = pre

\* a request for an existing file outside the root was answered 400
C7_Witness ==
    /\ ServedFile(FileOps) /\ Answer.err = ErrPathOutsideRoot
    /\ Stat(pre, AbsPath(allowedRoot, req.path)).err = "nil"
    /\ pre[Stat(pre, AbsPath(allowedRoot, req.path)).path].kind = "file"
    /\ resp.status = 400 /\ resp.content = <<>> /\ fs = pre

\* the arguments of the last request that are classified as paths and
\* refused by the resolver
Refused ==
    {i \in 1..Len(req.args) :
        /\ IsPathArg(pre, Root, req.args[i])
        /\ ValidatePath(pre, allowedRoot, req.args[i]).err # "nil"}

\* C8: an exec request of a whitelisted command launches the process only
\* when every argument classified as a path resolved, then with the allowed
\* root as working directory and each such argument replaced by its resolved
\* path, the others as sent; when one of them is refused no process is
\* launched and the request fails. A command not on the whitelist launches
\* nothing.
C8_ResolveThenLaunch ==
    /\ ServedExec /\ Refused # {} =>
          ~proc.launched /\ resp.status = 400 /\ resp.error # <<>>
    /\ ServedExec /\ Refused = {} =>
          /\ proc.launched /\ proc.command = req.command /\ proc.dir = allowedRoot
          /\ Len(proc.args) = Len(req.args)
          /\ \A i \in 1..Len(req.args) :
                proc.args[i] = IF IsPathArg(pre, Root, req.args[i])
                               THEN ValidatePath(pre, allowedRoot, req.args[i]).path
                               ELSE req.args[i]
    /\ req.op = "exec" /\ ~ServedExec => ~proc.launched
    /\ req.op = "exec" => fs = pre

\* a process was launched with a path argument replaced by its resolved
\* path and a flag passed as sent
C8_Witness ==
    /\ ServedExec /\ proc.launched /\ proc.dir = allowedRoot
    /\ \E i \in 1..Len(req.args) :
          IsPathArg(pre, Root, req.args[i]) /\ proc.args[i] # req.args[i]
    /\ \E i \in 1..Len(req.args) : ~IsPathArg(pre, Root, req.args[i])

\* the decision order of the classifier for a token, seen from the working
\* directory cwd: a flag is not a path; a token with a separator, a leading
\* "." or an absolute one is; another token is one exactly when it names an
\* entry of the working directory or its parent directory, the working
\* directory, exists
DecisionOrder(f, cwd, tok) ==
    IF tok # <<>> /\ tok[1] = "-" THEN FALSE
    ELSE IF (\E i \in 1..Len(tok) : tok[i] \in {"/", "\\"}) \/ (tok # <<>> /\ tok[1] = ".")
         THEN TRUE
    ELSE \/ tok # <<>> /\ Lookup(f, cwd).kind = "dir" /\ Stat(f, Child(cwd, tok)).err = "nil"
         \/ Lookup(f, cwd).kind = "dir"

\* C9: every argument of an exec request is classified by the decision
\* order: in particular a bare token that names no entry and whose parent
\* directory does not exist is not a path.
C9_DecisionOrder ==
    ServedExec =>
        \A i \in 1..Len(req.args) :
            IsPathArg(pre, Root, req.args[i]) = DecisionOrder(pre, Root, req.args[i])

\* the values of allowedRoot a call read
RootsRead(c) == {c.r0, c.r1, c.r2} \ {Unread}

\* C10: a ValidatePath call that ran while the root was reconfigured read a
\* single root value, and the path it returns is inside the root that
\* anchored it.
C10_SingleRootObserved ==
    \A g \in Goroutines :
        calls[g].pc = "done" =>
            /\ Cardinality(RootsRead(calls[g])) <= 1
            /\ calls[g].result.err = "nil" /\ calls[g].r0 # Unread
                  => Inside(calls[g].r0, calls[g].result.path)

\* C11: in every state the allowed root is an absolute, canonical directory
\* path, with no symbolic link and no "." or ".." element, after startup and
\* after any SetAllowedRoot call, so that resolving the root itself gives
\* the root.
C11_RootCanonical ==
    /\ IsAbs(allowedRoot)
    /\ Clean(allowedRoot) = allowedRoot
    /\ Lookup(fs, allowedRoot).kind = "dir"
    /\ EvalSymlinks(fs, allowedRoot) = [err |-> "nil", path |-> allowedRoot, last |-> TRUE]
    /\ ValidatePath(fs, allowedRoot, allowedRoot) = Resolved(allowedRoot, 1)

\* the request served next reads path p
ReadsNext(p) ==
    req'.op = "read" /\ req'.method = "POST" /\ req'.json /\ req'.path = p

\* C12: a write request for a candidate that resolves inside the root, to a
\* location that is not a directory, succeeds, and the read request served
\* right after it for the same candidate, or for its resolved path, returns
\* exactly the content written.
C12_WriteReadRoundTrip ==
    [][ServedFile({"write"}) /\ Answer.err = "nil" /\ Lookup(pre, Answer.path).kind # "dir"
          => /\ resp.status = 200 /\ resp.success
             /\ ReadsNext(req.path) \/ ReadsNext(Answer.path)
                   => resp'.status = 200 /\ resp'.content = req.content]_vars

\* the last request served was a delete whose candidate resolved inside the root
DeleteResolved == ServedFile({"delete"}) /\ Answer.err = "nil"

\* os.Stat finds an entry at the resolved path of the last request
TargetExists == Stat(pre, Answer.path).err = "nil"

\* C13: a delete request for a candidate that resolves inside the root
\* succeeds exactly when the resolved path exists: then the path and all its
\* subtree are gone and every other entry is unchanged; otherwise the answer
\* is 400 with a non-empty error and the filesystem is unchanged.
C13_DeleteExact ==
    DeleteResolved =>
        IF TargetExists
        THEN /\ resp.status = 200 /\ resp.success
             /\ \A k \in DOMAIN pre \cup DOMAIN fs :
                   IF k = Answer.path \/ Below(Answer.path, k)
                   THEN k \notin DOMAIN fs
                   ELSE Lookup(fs, k) = Lookup(pre, k)
        ELSE /\ resp.status = 400 /\ ~resp.success /\ resp.error # <<>>
             /\ fs = pre

\* a directory with entries below it was deleted
C13_Witness ==
    /\ DeleteResolved /\ TargetExists /\ resp.status = 200
    /\ Answer.path # allowedRoot
    /\ \E k \in DOMAIN pre : Below(Answer.path, k)
    /\ Answer.path \notin DOMAIN fs

\* the real location of a path the last request reported
RealLocation(p) == Stat(pre, p)

\* C14: every entry of the tree a list request returns has its real
\* location, with symbolic links resolved, inside the allowed root, also
\* when the listed directory holds links that lead outside the root.
C14_TreeInsideRoot ==
    ServedFile({"list"}) /\ resp.status = 200 =>
        \A e \in resp.tree :
            /\ RealLocation(e.path).err = "nil"
            /\ Inside(allowedRoot, RealLocation(e.path).path)

\* a relative name with no entry under the root
FreshName == <<"n">>

\* C15: after any sequence of list, read, write and delete requests the
\* allowed root is still a directory, so that a fresh relative name under
\* it still resolves, to its place under the root.
C15_RootSurvives ==
    /\ Lookup(fs, allowedRoot).kind = "dir"
    /\ Lookup(fs, Child(allowedRoot, FreshName)).kind = "none"
          => ValidatePath(fs, allowedRoot, FreshName)
                 = Resolved(Child(allowedRoot, FreshName), 2)

====
